---- MODULE Spec2Model ----
(***************************************************************************)
(* Model of app.py: a Streamlit dashboard over three CSV tables (prod,     *)
(* util, anti).  The script loads the three tables, computes the broad     *)
(* statistics table, dispatches on two checkboxes and renders the analysis *)
(* of the pressed button.  Streamlit re-runs the whole script on every     *)
(* interaction.                                                            *)
(*                                                                         *)
(* A DataFrame is [columns |-> Seq(name), rows |-> Seq([idx, cells])]:     *)
(* idx is the row's index label (RangeIndex 0..n-1 after read_csv, kept by *)
(* boolean selection), cells maps each column name to the row's cell.      *)
(* A float64 cell is <<>> (NaN) or <<h>>, the float h / FloatScale.        *)
(* A text cell is a string, "" being the blank cell pandas reads as NaN.   *)
(***************************************************************************)
EXTENDS Integers, Sequences, FiniteSets, Bags, TLC

VARIABLES files, prod_df, util_df, anti_df, stats_df,
          show_type_strain_1, show_type_strain_0,
          prod_df_filtered, util_df_filtered, anti_df_filtered,
          button, out, pc, err

vars == <<files, prod_df, util_df, anti_df, stats_df,
          show_type_strain_1, show_type_strain_0,
          prod_df_filtered, util_df_filtered, anti_df_filtered,
          button, out, pc, err>>

\* ------------------------------------------------------------------ bounds
\* Resolution of the modelled float64 values: <<h>> is h / FloatScale.
FloatScale == 2
\* Largest number of data rows of the file varied by the loader family.
MaxLoadRows == 2

\* --------------------------------------------------------- generic helpers
Range(s) == {s[i] : i \in DOMAIN s}

Min(a, b) == IF a <= b THEN a ELSE b

\* Position of x in s, 0 when absent.
IndexOf(s, x) ==
    IF \E i \in DOMAIN s : s[i] = x
    THEN CHOOSE i \in DOMAIN s : s[i] = x /\ \A j \in 1..(i - 1) : s[j] # x
    ELSE 0

RemoveAt(s, p) == [i \in 1..(Len(s) - 1) |-> IF i < p THEN s[i] ELSE s[i + 1]]

RECURSIVE SumSeq(_)
SumSeq(s) == IF s = <<>> THEN 0 ELSE s[1] + SumSeq(Tail(s))

\* All sequences over S of length 0..n.
RECURSIVE SeqsUpTo(_, _)
SeqsUpTo(S, n) ==
    IF n = 0 THEN {<<>>}
    ELSE LET shorter == SeqsUpTo(S, n - 1)
         IN  shorter \cup {Append(s, x) : s \in {t \in shorter : Len(t) = n - 1}, x \in S}

\* ------------------------------------------------------------- data frames
NaN == <<>>

NoFrame == [columns |-> <<>>, rows |-> <<>>]

NoStats == <<>>

Column(df, name) == [i \in DOMAIN df.rows |-> df.rows[i].cells[name]]

HasColumn(df, name) == IndexOf(df.columns, name) # 0

\* df.drop(columns=[name])
DropColumn(df, name) ==
    LET kept == RemoveAt(df.columns, IndexOf(df.columns, name))
    IN  [columns |-> kept,
         rows |-> [i \in DOMAIN df.rows |->
                     [df.rows[i] EXCEPT !.cells = [c \in Range(kept) |-> df.rows[i].cells[c]]]]]

\* -------------------------------------------------------------- the loader
\* pd.read_csv: a frame with the file's header and a RangeIndex.  The dtype
\* mapping names columns; a name that is no column of the file is ignored.
read_csv(file) ==
    [columns |-> file.header,
     rows |-> [i \in DOMAIN file.rows |-> [idx |-> i - 1, cells |-> file.rows[i]]]]

\* .fillna(0) on a float64 cell.
fillna0(c) == IF c = NaN THEN <<0>> ELSE c

\* astype_int rounding toward minus infinity.
astype_int_floor(c) == c[1] \div FloatScale

\* .astype(int) on a float64 cell without NaN: truncation toward zero.
astype_int(c) ==
    IF c[1] >= 0 THEN c[1] \div FloatScale ELSE -((-c[1]) \div FloatScale)

fill_and_cast(c) == astype_int(fillna0(c))

\* df[name] = df[name].fillna(0).astype(int)
cast_column(df, name) ==
    [df EXCEPT !.rows =
        [i \in DOMAIN df.rows |->
            [df.rows[i] EXCEPT !.cells[name] = fill_and_cast(df.rows[i].cells[name])]]]

\* load_and_clean_data dropping strain_number_header only when it is there.
load_and_clean_data_lenient(file) ==
    IF ~file.readable THEN [err |-> "FileNotFoundError", df |-> NoFrame]
    ELSE LET df0 == read_csv(file)
         IN  IF ~HasColumn(df0, "ID") \/ ~HasColumn(df0, "is_type_strain_header")
             THEN [err |-> "KeyError", df |-> NoFrame]
             ELSE LET df2 == cast_column(cast_column(df0, "ID"), "is_type_strain_header")
                  IN  [err |-> "",
                       df |-> IF HasColumn(df2, "strain_number_header")
                              THEN DropColumn(df2, "strain_number_header") ELSE df2]

\* load_and_clean_data(file_path): [err, df]; err = "" on success.
load_and_clean_data(file) ==
    IF ~file.readable THEN [err |-> "FileNotFoundError", df |-> NoFrame]
    ELSE LET df0 == read_csv(file)
         IN  IF ~HasColumn(df0, "ID") THEN [err |-> "KeyError", df |-> NoFrame]
             ELSE LET df1 == cast_column(df0, "ID")
                  IN  IF ~HasColumn(df1, "is_type_strain_header")
                      THEN [err |-> "KeyError", df |-> NoFrame]
                      ELSE LET df2 == cast_column(df1, "is_type_strain_header")
                           IN  IF ~HasColumn(df2, "strain_number_header")
                               THEN [err |-> "KeyError", df |-> NoFrame]
                               ELSE [err |-> "", df |-> DropColumn(df2, "strain_number_header")]

\* ------------------------------------------------- aggregation, statistics
\* df.columns[4:]
FirstMetabolite == 4

\* metabolite_columns starting one column late.
metabolite_columns_late(df) == SubSeq(df.columns, FirstMetabolite + 2, Len(df.columns))

metabolite_columns(df) == SubSeq(df.columns, FirstMetabolite + 1, Len(df.columns))

\* filter_by_type_strain comparing with >= instead of ==.
filter_by_type_strain_ge(df, type_strain_value) ==
    [df EXCEPT !.rows =
        SelectSeq(df.rows, LAMBDA r : r.cells["is_type_strain_header"] >= type_strain_value)]

\* df[df['is_type_strain_header'] == type_strain_value] on the frame's own column.
filter_by_type_strain(df, type_strain_value) ==
    [df EXCEPT !.rows =
        SelectSeq(df.rows, LAMBDA r : r.cells["is_type_strain_header"] = type_strain_value)]

\* count_metabolites(df): the Series of column sums, in column order.
count_metabolites(df) ==
    LET mc == metabolite_columns(df)
    IN  [k \in DOMAIN mc |->
            [name |-> mc[k],
             value |-> SumSeq([i \in DOMAIN df.rows |-> df.rows[i].cells[mc[k]]])]]

\* Series.sum() of a Series of column sums.
series_sum(series) == SumSeq([k \in DOMAIN series |-> series[k].value])

\* type_strain_mask comparing with >= instead of ==.
type_strain_mask_ge(prod, p) ==
    [i \in DOMAIN prod.rows |->
        [idx |-> prod.rows[i].idx,
         flag |-> prod.rows[i].cells["is_type_strain_header"] >= p]]

\* prod_df['is_type_strain_header'] == p: a boolean Series on prod's index.
type_strain_mask(prod, p) ==
    [i \in DOMAIN prod.rows |->
        [idx |-> prod.rows[i].idx,
         flag |-> prod.rows[i].cells["is_type_strain_header"] = p]]

\* unalignable raising on every difference of the two indexes.
unalignable_strict(df, mask) == Len(df.rows) # Len(mask)

\* check_bool_indexer: a boolean Series key is aligned to the frame's index by
\* label; the selection raises when a label of the frame is no label of the key.
unalignable(df, mask) ==
    \E i \in DOMAIN df.rows : \A j \in DOMAIN mask : mask[j].idx # df.rows[i].idx

mask_at(mask, label) == mask[CHOOSE j \in DOMAIN mask : mask[j].idx = label].flag

\* df[mask] for a boolean Series mask.
bool_select(df, mask) ==
    [df EXCEPT !.rows = SelectSeq(df.rows, LAMBDA r : mask_at(mask, r.idx))]

\* len(frame['species'].unique())
species_count(df) == Cardinality({df.rows[i].cells["species"] : i \in DOMAIN df.rows})

\* partition_stats with util and anti selected on their own is_type_strain column.
partition_stats_own_mask(category, prod, util, anti, p) ==
    LET mask == type_strain_mask(prod, p)
    IN  [Category |-> category,
         SpeciesCount |-> species_count(bool_select(prod, mask)),
         Prod |-> series_sum(count_metabolites(bool_select(prod, mask))),
         Util |-> series_sum(count_metabolites(filter_by_type_strain(util, p))),
         Anti |-> series_sum(count_metabolites(filter_by_type_strain(anti, p)))]

\* One partition's row of the statistics table (lines 46-49, 52-55).
partition_stats(category, prod, util, anti, p) ==
    LET mask == type_strain_mask(prod, p)
    IN  [Category |-> category,
         SpeciesCount |-> species_count(bool_select(prod, mask)),
         Prod |-> series_sum(count_metabolites(bool_select(prod, mask))),
         Util |-> series_sum(count_metabolites(bool_select(util, mask))),
         Anti |-> series_sum(count_metabolites(bool_select(anti, mask)))]

\* The Total row as the distinct species count of the whole table.
total_stats_distinct(prod, t, n) ==
    [Category |-> "Total",
     SpeciesCount |-> species_count(prod),
     Prod |-> t.Prod + n.Prod,
     Util |-> t.Util + n.Util,
     Anti |-> t.Anti + n.Anti]

\* The Total row (lines 58-61, 65).
total_stats(prod, t, n) ==
    [Category |-> "Total",
     SpeciesCount |-> t.SpeciesCount + n.SpeciesCount,
     Prod |-> t.Prod + n.Prod,
     Util |-> t.Util + n.Util,
     Anti |-> t.Anti + n.Anti]

\* The exception compute_statistics raises, "" when it returns.
stats_error(prod, util, anti) ==
    IF ~HasColumn(prod, "is_type_strain_header") \/ ~HasColumn(prod, "species")
    THEN "KeyError"
    ELSE IF unalignable(util, type_strain_mask(prod, 1))
            \/ unalignable(anti, type_strain_mask(prod, 1))
         THEN "IndexingError"
         ELSE ""

\* compute_statistics(prod_df, util_df, anti_df): [err, stats].
compute_statistics(prod, util, anti) ==
    LET e == stats_error(prod, util, anti)
    IN  IF e # "" THEN [err |-> e, stats |-> NoStats]
        ELSE LET t == partition_stats("Type Strain", prod, util, anti, 1)
                 n == partition_stats("Non-Type Strain", prod, util, anti, 0)
             IN  [err |-> "", stats |-> <<t, n, total_stats(prod, t, n)>>]

\* ----------------------------------------------------- checkbox dispatch
\* The dispatch showing nothing when both checkboxes are deselected.
filtered_tables_none_empty(show1, show0, prod, util, anti) ==
    IF show1 /\ ~show0
    THEN <<filter_by_type_strain(prod, 1), filter_by_type_strain(util, 1),
           filter_by_type_strain(anti, 1)>>
    ELSE IF ~show1 /\ show0
         THEN <<filter_by_type_strain(prod, 0), filter_by_type_strain(util, 0),
                filter_by_type_strain(anti, 0)>>
         ELSE IF show1 THEN <<prod, util, anti>>
              ELSE <<[prod EXCEPT !.rows = <<>>], [util EXCEPT !.rows = <<>>],
                     [anti EXCEPT !.rows = <<>>]>>

\* Lines 84-96: <<prod_df_filtered, util_df_filtered, anti_df_filtered>>.
filtered_tables(show1, show0, prod, util, anti) ==
    IF show1 /\ ~show0
    THEN <<filter_by_type_strain(prod, 1), filter_by_type_strain(util, 1),
           filter_by_type_strain(anti, 1)>>
    ELSE IF ~show1 /\ show0
         THEN <<filter_by_type_strain(prod, 0), filter_by_type_strain(util, 0),
                filter_by_type_strain(anti, 0)>>
         ELSE <<prod, util, anti>>

\* ---------------------------------------------------------------- ranking
\* .head(10)
TopN == 10

head(series, n) == SubSeq(series, 1, Min(n, Len(series)))

\* Series.value_counts() before sorting: the non-missing values in the order
\* they are first met, each with its number of occurrences.
value_counts_unsorted(df, name) ==
    LET col == Column(df, name)
        firsts == SelectSeq([i \in DOMAIN col |-> i],
                            LAMBDA i : col[i] # "" /\ \A j \in 1..(i - 1) : col[j] # col[i])
    IN  [k \in DOMAIN firsts |->
            [name |-> col[firsts[k]],
             value |-> Cardinality({i \in DOMAIN col : col[i] = col[firsts[k]]})]]

MaxValue(series, P) ==
    CHOOSE v \in {series[k].value : k \in P} : \A k \in P : series[k].value <= v

\* The orders a descending sort may leave the entries at positions P in.
RECURSIVE descending_orders(_, _)
descending_orders(series, P) ==
    IF P = {} THEN {<<>>}
    ELSE UNION {{<<series[k]>> \o rest : rest \in descending_orders(series, P \ {k})} :
                   k \in {j \in P : series[j].value = MaxValue(series, P)}}

\* A sort that puts the smallest value first.
RECURSIVE ascending_orders(_, _)
ascending_orders(series, P) ==
    IF P = {} THEN {<<>>}
    ELSE UNION {{Append(rest, series[k]) : rest \in ascending_orders(series, P \ {k})} :
                   k \in {j \in P : series[j].value = MaxValue(series, P)}}

sort_values_ascending(series) == ascending_orders(series, DOMAIN series)

\* Series.sort_values(ascending=False), also the sort inside value_counts():
\* kind defaults to 'quicksort', which is not stable, so entries of equal
\* value may come out in any order.  The set of possible results.
sort_values_descending(series) == descending_orders(series, DOMAIN series)

\* frame['species'].value_counts().head(10): the possible results.
top_species(df) ==
    {head(r, TopN) : r \in sort_values_descending(value_counts_unsorted(df, "species"))}

\* count_metabolites(frame).sort_values(ascending=False).head(10): the possible results.
top_metabolites(df) ==
    {head(r, TopN) : r \in sort_values_descending(count_metabolites(df))}

Tables == {"prod", "util", "anti"}

Analyses == {"count", "species", "metabolites"}

\* The nine sidebar buttons, as <<table, analysis>>.
Buttons == Tables \X Analyses

NoButton == <<"", "">>

\* Lines 110-153: what the script writes for the pressed button (the possible
\* results), given the three filtered frames.
rendered(b, filtered) ==
    LET df == CASE b[1] = "prod" -> filtered[1]
                [] b[1] = "util" -> filtered[2]
                [] OTHER -> filtered[3]
    IN  CASE b = NoButton -> {<<>>}
          [] b[2] = "count" -> {count_metabolites(df)}
          [] b[2] = "species" -> top_species(df)
          [] OTHER -> top_metabolites(df)

\* ------------------------------------------------------------ input files
FixedColumns ==
    <<"ID", "species", "is_type_strain_header", "designation_header", "strain_number_header">>

AllMetNames == <<"m1", "m2", "m3", "m4", "m5", "m6", "m7", "m8", "m9", "m10", "m11", "m12">>

\* The header with the first k metabolite columns.
HeaderWith(k) == FixedColumns \o SubSeq(AllMetNames, 1, k)

FullHeader == FixedColumns \o <<"m1", "m2">>

\* strain_number_header does not sit in a fixed position of the header.
StrainLastHeader ==
    <<"ID", "species", "is_type_strain_header", "designation_header", "m1", "m2",
      "strain_number_header">>

Without(header, name) == RemoveAt(header, IndexOf(header, name))

\* The float value v (an integer) as a float64 cell.
F(v) == <<v * FloatScale>>

\* A row of a file with the given header: the ID and is_type_strain cells as
\* given, the metabolite cells from met (a function of the column name).
MkRow(header, id, species, ts, met) ==
    [c \in Range(header) |->
        CASE c = "ID" -> id
          [] c = "species" -> species
          [] c = "is_type_strain_header" -> ts
          [] c = "designation_header" -> "d"
          [] c = "strain_number_header" -> "s"
          [] OTHER -> met[c]]

MkFile(header, rows) == [readable |-> TRUE, header |-> header, rows |-> rows]

MissingFile == [readable |-> FALSE, header |-> <<>>, rows |-> <<>>]

UnitMet == [c \in {"m1", "m2"} |-> 1]

\* A well-formed one-row file.
PlainFile == MkFile(FullHeader, << MkRow(FullHeader, F(1), "A", F(1), UnitMet) >>)

\* Loader family: every header shape, ID and is_type_strain cells blank,
\* integral, fractional and negative.
LoadHeaders ==
    {FullHeader, StrainLastHeader} \cup {Without(FullHeader, FixedColumns[k]) : k \in 1..5}

LoadIdCells == {NaN, F(3), <<FloatScale + 1>>}

LoadTsCells == {NaN, F(0), F(1), <<-(FloatScale + 1)>>}

LoadFiles ==
    {MissingFile} \cup
    UNION {{MkFile(h, rows) :
               rows \in SeqsUpTo({MkRow(h, id, "A", ts, UnitMet) :
                                     id \in LoadIdCells, ts \in LoadTsCells},
                                 MaxLoadRows)} : h \in LoadHeaders}

\* Statistics family: well-formed files; prod varies in species and
\* is_type_strain (0, 1 and the out-of-range 2), util in its own
\* is_type_strain and in its number of rows, anti in its number of rows.
\* The m1 cell of row i is 2^(i-1), so a sum tells which rows it ran over.
MaxStatRows == 2

StatRow(i, species, ts) ==
    MkRow(FullHeader, F(i), species, F(ts), [c \in {"m1", "m2"} |-> IF c = "m1" THEN 2^(i - 1) ELSE 1])

StatFile(shape) ==
    MkFile(FullHeader, [i \in DOMAIN shape |-> StatRow(i, shape[i][1], shape[i][2])])

StatProdFiles ==
    {StatFile(sh) : sh \in SeqsUpTo({"A", "B"} \X {0, 1, 2}, MaxStatRows)}

StatUtilFiles ==
    {StatFile(sh) : sh \in SeqsUpTo({"A"} \X {0, 1}, MaxStatRows + 1)}

StatAntiFiles ==
    {StatFile([i \in 1..n |-> <<"A", 0>>]) : n \in 0..(MaxStatRows + 1)}

\* Dashboard family: two-column files whose is_type_strain columns differ
\* from table to table.
MaxUiRows == 2

UiFile(ts) ==
    MkFile(FullHeader,
           [i \in DOMAIN ts |-> StatRow(i, IF i % 2 = 1 THEN "A" ELSE "B", ts[i])])

UiFiles == {UiFile(ts) : ts \in SeqsUpTo({0, 1}, MaxUiRows)}

UiAntiFiles == {UiFile(<<1>>), UiFile(<<2>>)}

\* Ranking family: species columns with repeated and blank values, wide
\* tables with more than TopN species or metabolite columns, and the
\* value counts {A:5, B:5, C:3}.
MaxSpeciesRows == 3

MaxMetRows == 2

SpeciesNames == <<"A", "B", "C", "D", "E", "F", "G", "H", "I", "J", "K", "L">>

OnesMet == [c \in Range(AllMetNames) |-> 1]

SpeciesFile(species) ==
    MkFile(FullHeader, [i \in DOMAIN species |-> MkRow(FullHeader, F(i), species[i], F(1), OnesMet)])

\* The species column in which species k occurs counts[k] times, the species
\* first met in the order 1, 2, ...
RECURSIVE RoundRobin(_, _)
RoundRobin(counts, pass) ==
    IF \A k \in DOMAIN counts : counts[k] < pass THEN <<>>
    ELSE [i \in DOMAIN SelectSeq([k \in DOMAIN counts |-> k], LAMBDA k : counts[k] >= pass) |->
             SpeciesNames[SelectSeq([k \in DOMAIN counts |-> k], LAMBDA k : counts[k] >= pass)[i]]]
         \o RoundRobin(counts, pass + 1)

\* Counts 1, 1, 2, 2, 3, 3, ...: every count is shared by at most two.
PairCounts(k) == [i \in 1..k |-> (i + 1) \div 2]

SpeciesFiles ==
    {SpeciesFile(sp) : sp \in SeqsUpTo({"", "A", "B", "C"}, MaxSpeciesRows)}
    \cup {SpeciesFile(RoundRobin(<<5, 5, 3>>, 1))}
    \cup {SpeciesFile(RoundRobin(PairCounts(k), 1)) : k \in {TopN, TopN + 1, TopN + 2}}

MetFile(k, mets) ==
    MkFile(HeaderWith(k), [i \in DOMAIN mets |-> MkRow(HeaderWith(k), F(i), "A", F(1), mets[i])])

WideRow1 == [c \in Range(AllMetNames) |-> (IndexOf(AllMetNames, c) + 1) \div 2]

WideRow2 == [c \in Range(AllMetNames) |-> IndexOf(AllMetNames, c) % 2]

MetFiles ==
    {MetFile(2, m) : m \in SeqsUpTo([{"m1", "m2"} -> {0, 1}], MaxMetRows)}
    \cup {MetFile(k, m) : k \in {TopN + 1, TopN + 2}, m \in {<<WideRow1>>, <<WideRow1, WideRow2>>}}

\* ---------------------------------------------------------------- actions
Start(f) ==
    /\ files = f
    /\ prod_df = NoFrame /\ util_df = NoFrame /\ anti_df = NoFrame
    /\ stats_df = NoStats
    /\ show_type_strain_1 = TRUE /\ show_type_strain_0 = TRUE
    /\ prod_df_filtered = NoFrame /\ util_df_filtered = NoFrame
    /\ anti_df_filtered = NoFrame
    /\ button = NoButton /\ out = <<>>
    /\ pc = "load_prod" /\ err = ""

\* prod_df = load_and_clean_data('metabolites/prod.csv')
LoadProd ==
    /\ pc = "load_prod"
    /\ LET r == load_and_clean_data(files.prod)
       IN  /\ prod_df' = r.df
           /\ err' = r.err
           /\ pc' = IF r.err = "" THEN "load_util" ELSE "crashed"
    /\ UNCHANGED <<files, util_df, anti_df, stats_df, show_type_strain_1,
                   show_type_strain_0, prod_df_filtered, util_df_filtered,
                   anti_df_filtered, button, out>>

\* util_df = load_and_clean_data('metabolites/util.csv')
LoadUtil ==
    /\ pc = "load_util"
    /\ LET r == load_and_clean_data(files.util)
       IN  /\ util_df' = r.df
           /\ err' = r.err
           /\ pc' = IF r.err = "" THEN "load_anti" ELSE "crashed"
    /\ UNCHANGED <<files, prod_df, anti_df, stats_df, show_type_strain_1,
                   show_type_strain_0, prod_df_filtered, util_df_filtered,
                   anti_df_filtered, button, out>>

\* anti_df = load_and_clean_data('metabolites/anti.csv')
LoadAnti ==
    /\ pc = "load_anti"
    /\ LET r == load_and_clean_data(files.anti)
       IN  /\ anti_df' = r.df
           /\ err' = r.err
           /\ pc' = IF r.err = "" THEN "statistics" ELSE "crashed"
    /\ UNCHANGED <<files, prod_df, util_df, stats_df, show_type_strain_1,
                   show_type_strain_0, prod_df_filtered, util_df_filtered,
                   anti_df_filtered, button, out>>

\* stats_df = compute_statistics(prod_df, util_df, anti_df)
ComputeStatistics ==
    /\ pc = "statistics"
    /\ LET r == compute_statistics(prod_df, util_df, anti_df)
       IN  /\ stats_df' = r.stats
           /\ err' = r.err
           /\ pc' = IF r.err = "" THEN "checkboxes" ELSE "crashed"
    /\ UNCHANGED <<files, prod_df, util_df, anti_df, show_type_strain_1,
                   show_type_strain_0, prod_df_filtered, util_df_filtered,
                   anti_df_filtered, button, out>>

\* Lines 80-96: the checkboxes are read and the three frames filtered.
Dispatch ==
    /\ pc = "checkboxes"
    /\ LET f == filtered_tables(show_type_strain_1, show_type_strain_0,
                                prod_df, util_df, anti_df)
       IN  /\ prod_df_filtered' = f[1]
           /\ util_df_filtered' = f[2]
           /\ anti_df_filtered' = f[3]
    /\ pc' = "buttons"
    /\ UNCHANGED <<files, prod_df, util_df, anti_df, stats_df, show_type_strain_1,
                   show_type_strain_0, button, out, err>>

\* Lines 100-153: the buttons are read and the pressed one's analysis written.
Render ==
    /\ pc = "buttons"
    /\ \E o \in rendered(button, <<prod_df_filtered, util_df_filtered, anti_df_filtered>>) :
          out' = o
    /\ pc' = "done"
    /\ UNCHANGED <<files, prod_df, util_df, anti_df, stats_df, show_type_strain_1,
                   show_type_strain_0, prod_df_filtered, util_df_filtered,
                   anti_df_filtered, button, err>>

\* Streamlit runs the script again from the top on an interaction: the
\* script's globals are rebuilt, the widget states are what the user left.
\* The widgets exist only once the script has reached them.
Rerun(show1, show0, b) ==
    /\ pc = "done"
    /\ show_type_strain_1' = show1
    /\ show_type_strain_0' = show0
    /\ button' = b
    /\ prod_df' = NoFrame /\ util_df' = NoFrame /\ anti_df' = NoFrame
    /\ stats_df' = NoStats
    /\ prod_df_filtered' = NoFrame /\ util_df_filtered' = NoFrame
    /\ anti_df_filtered' = NoFrame
    /\ out' = <<>> /\ err' = "" /\ pc' = "load_prod"
    /\ UNCHANGED files

\* The user toggles "Show Type Strain (1)".
ToggleTypeStrain1 == Rerun(~show_type_strain_1, show_type_strain_0, NoButton)

\* The user toggles "Show Non-Type Strain (0)".
ToggleTypeStrain0 == Rerun(show_type_strain_1, ~show_type_strain_0, NoButton)

\* The user presses one of the nine buttons.
Click == \E b \in Buttons : Rerun(show_type_strain_1, show_type_strain_0, b)

\* ---------------------------------------------------- loader specification
InitLoad ==
    \E p \in LoadFiles, u \in {PlainFile, MissingFile} :
        Start([prod |-> p, util |-> u, anti |-> PlainFile])

NextLoad == LoadProd \/ LoadUtil \/ LoadAnti

SpecLoad == InitLoad /\ [][NextLoad]_vars

\* ------------------------------------------------ statistics specification
InitStats ==
    \E p \in StatProdFiles, u \in StatUtilFiles, a \in StatAntiFiles :
        Start([prod |-> p, util |-> u, anti |-> a])

NextStats == LoadProd \/ LoadUtil \/ LoadAnti \/ ComputeStatistics

SpecStats == InitStats /\ [][NextStats]_vars

\* --------------------------------------------------- ranking specification
\* The three tables hold the same file; the checkboxes keep their defaults.
InitRank == \E f \in SpeciesFiles \cup MetFiles : Start([prod |-> f, util |-> f, anti |-> f])

NextRank == LoadProd \/ LoadUtil \/ LoadAnti \/ ComputeStatistics \/ Dispatch \/ Render \/ Click

SpecRank == InitRank /\ [][NextRank]_vars

\* ------------------------------------------------- dashboard specification
Init ==
    \E p \in UiFiles, u \in UiFiles, a \in UiAntiFiles :
        Start([prod |-> p, util |-> u, anti |-> a])

Next ==
    \/ LoadProd \/ LoadUtil \/ LoadAnti \/ ComputeStatistics \/ Dispatch \/ Render
    \/ ToggleTypeStrain1 \/ ToggleTypeStrain0 \/ Click

Spec == Init /\ [][Next]_vars

\* ------------------------------------------------------- claims: the loader
\* The prod load has run / has raised.
ProdLoadDone == pc # "load_prod"

ProdLoadFailed == pc = "crashed" /\ prod_df = NoFrame /\ err # ""

Lacks(file, name) == IndexOf(file.header, name) = 0

\* C4 as stated: the load fails if the file cannot be read or if any one of
\* the five fixed columns is absent from the header.
C4_AsStated ==
    (ProdLoadDone /\ (~files.prod.readable \/ \E k \in 1..5 : Lacks(files.prod, FixedColumns[k])))
        => ProdLoadFailed

\* C4 amended: the load fails if the file cannot be read or if any one of ID,
\* is_type_strain_header, strain_number_header is absent from the header; a
\* readable file with those three columns is returned as a table, also when
\* species or designation_header is absent.
CheckedColumns == {"ID", "is_type_strain_header", "strain_number_header"}

C4_LoadFailsOnCheckedColumns ==
    ProdLoadDone =>
        IF ~files.prod.readable \/ \E c \in CheckedColumns : Lacks(files.prod, c)
        THEN ProdLoadFailed
        ELSE prod_df # NoFrame /\ ~ProdLoadFailed

C4_Witness ==
    /\ ProdLoadFailed
    /\ files.prod.readable
    /\ Lacks(files.prod, "strain_number_header")
    /\ ~Lacks(files.prod, "ID") /\ ~Lacks(files.prod, "is_type_strain_header")

ProdLoadedOk == ProdLoadDone /\ prod_df # NoFrame

IntegerColumns == {"ID", "is_type_strain_header"}

KeptColumnsOk ==
    /\ prod_df.columns = Without(files.prod.header, "strain_number_header")
    /\ Len(prod_df.rows) = Len(files.prod.rows)
    /\ \A i \in DOMAIN prod_df.rows :
          \A c \in Range(prod_df.columns) \ IntegerColumns :
              prod_df.rows[i].cells[c] = files.prod.rows[i][c]

\* C5 as stated: a loaded table has no strain_number column, keeps the other
\* columns in order, and every ID and is_type_strain cell is an integer: 0
\* where the source cell was blank and the source value elsewhere.
C5_AsStated ==
    ProdLoadedOk =>
        /\ KeptColumnsOk
        /\ \A i \in DOMAIN prod_df.rows : \A c \in IntegerColumns :
              LET src == files.prod.rows[i][c]
                  v == prod_df.rows[i].cells[c]
              IN  /\ v \in Int
                  /\ IF src = NaN THEN v = 0 ELSE v * FloatScale = src[1]

Abs(x) == IF x < 0 THEN -x ELSE x

\* C5 amended: as stated, but a non-blank source value that is not integral
\* arrives truncated toward zero (an integral source value arrives as it is).
C5_LoadedCellsTruncated ==
    ProdLoadedOk =>
        /\ KeptColumnsOk
        /\ \A i \in DOMAIN prod_df.rows : \A c \in IntegerColumns :
              LET src == files.prod.rows[i][c]
                  v == prod_df.rows[i].cells[c]
              IN  /\ v \in Int
                  /\ IF src = NaN THEN v = 0
                     ELSE /\ Abs(v * FloatScale) <= Abs(src[1])
                          /\ Abs(src[1]) - Abs(v * FloatScale) < FloatScale
                          /\ v * src[1] >= 0

C5_Witness ==
    /\ ProdLoadedOk
    /\ \E i \in DOMAIN prod_df.rows :
          /\ files.prod.rows[i]["ID"] = NaN
          /\ files.prod.rows[i]["is_type_strain_header"] # NaN
          /\ files.prod.rows[i]["is_type_strain_header"][1] < 0
          /\ prod_df.rows[i].cells["ID"] = 0
    /\ IndexOf(files.prod.header, "strain_number_header") = 5

\* --------------------------------------------------- claims: the statistics
StatsRan == pc \in {"checkboxes", "buttons", "done"} \/ (pc = "crashed" /\ anti_df # NoFrame)

StatsReturned == stats_df # NoStats

TypeStrainOf(df, i) == df.rows[i].cells["is_type_strain_header"]

\* The metabolite cells of row i, by name.
RowTotal(df, i) == df.rows[i].cells["m1"] + df.rows[i].cells["m2"]

\* Sum of the metabolite cells of the rows of df at the positions where prod
\* has is_type_strain = p.
MaskedTotal(df, p) ==
    SumSeq([i \in DOMAIN df.rows |->
               IF i <= Len(prod_df.rows) /\ TypeStrainOf(prod_df, i) = p
               THEN RowTotal(df, i) ELSE 0])

WholeTotal(df) == SumSeq([i \in DOMAIN df.rows |-> RowTotal(df, i)])

SpeciesOf(p) ==
    {prod_df.rows[i].cells["species"] :
        i \in {j \in DOMAIN prod_df.rows : TypeStrainOf(prod_df, j) = p}}

\* The statistics row of partition value p.
StatsRow(p) == IF p = 1 THEN stats_df[1] ELSE stats_df[2]

\* C1: for p in {1, 0} the Util and Anti entries are the sums of the
\* metabolite cells of the util (anti) rows at the positions of the prod rows
\* with is_type_strain = p, whatever the util and anti tables' own
\* is_type_strain columns hold, and Species Count(p) is the number of distinct
\* species among the prod rows with is_type_strain = p.
C1_StatsMaskedByProd ==
    StatsReturned =>
        \A p \in {1, 0} :
            /\ StatsRow(p).Util = MaskedTotal(util_df, p)
            /\ StatsRow(p).Anti = MaskedTotal(anti_df, p)
            /\ StatsRow(p).SpeciesCount = Cardinality(SpeciesOf(p))

C1_Witness ==
    /\ StatsReturned
    /\ Len(util_df.rows) = Len(prod_df.rows)
    /\ \E i \in DOMAIN util_df.rows :
          TypeStrainOf(util_df, i) = 1 /\ TypeStrainOf(prod_df, i) = 0
    /\ \E i \in DOMAIN util_df.rows :
          TypeStrainOf(util_df, i) = 0 /\ TypeStrainOf(prod_df, i) = 1
    /\ StatsRow(1).Util > 0 /\ StatsRow(0).Util > 0
    /\ StatsRow(1).Util # StatsRow(0).Util

\* C2: the Total row is the element-wise sum of the two partition rows; its
\* Species Count is speciesCount(1) + speciesCount(0), so a species of both
\* partitions is counted twice.
C2_TotalIsSumOfRows ==
    StatsReturned =>
        /\ stats_df[3].Category = "Total"
        /\ stats_df[1].Category = "Type Strain"
        /\ stats_df[2].Category = "Non-Type Strain"
        /\ stats_df[3].SpeciesCount = Cardinality(SpeciesOf(1)) + Cardinality(SpeciesOf(0))
        /\ stats_df[3].SpeciesCount = stats_df[1].SpeciesCount + stats_df[2].SpeciesCount
        /\ stats_df[3].Prod = stats_df[1].Prod + stats_df[2].Prod
        /\ stats_df[3].Util = stats_df[1].Util + stats_df[2].Util
        /\ stats_df[3].Anti = stats_df[1].Anti + stats_df[2].Anti

C2_Witness ==
    /\ StatsReturned
    /\ SpeciesOf(1) \cap SpeciesOf(0) # {}
    /\ stats_df[3].SpeciesCount = 2
    /\ Cardinality(SpeciesOf(1) \cup SpeciesOf(0)) = 1

RowCountsDiffer ==
    Len(util_df.rows) # Len(prod_df.rows) \/ Len(anti_df.rows) # Len(prod_df.rows)

\* C3 as stated: when util or anti has more or fewer rows than prod,
\* compute_statistics ends in a fatal error and returns no table.
C3_AsStated ==
    (StatsRan /\ RowCountsDiffer) => (pc = "crashed" /\ stats_df = NoStats)

\* C3 amended: when util or anti has more rows than prod, compute_statistics
\* ends in a fatal error and returns no table; when neither has more rows
\* and one has fewer, it returns the table computed with the mask of prod
\* cut to the rows that table has.
C3_MoreRowsFatalFewerRowsTruncated ==
    (StatsRan /\ RowCountsDiffer) =>
        IF Len(util_df.rows) > Len(prod_df.rows) \/ Len(anti_df.rows) > Len(prod_df.rows)
        THEN pc = "crashed" /\ err = "IndexingError" /\ stats_df = NoStats
        ELSE /\ StatsReturned
             /\ pc # "crashed"
             /\ \A p \in {1, 0} :
                   /\ StatsRow(p).Util = MaskedTotal(util_df, p)
                   /\ StatsRow(p).Anti = MaskedTotal(anti_df, p)

C3_Witness ==
    /\ StatsReturned
    /\ Len(util_df.rows) < Len(prod_df.rows)
    /\ Len(util_df.rows) > 0
    /\ Len(anti_df.rows) = Len(prod_df.rows)
    /\ StatsRow(1).Util > 0

AllZeroOne(df) == \A i \in DOMAIN df.rows : TypeStrainOf(df, i) \in {0, 1}

Loaded == {df \in {prod_df, util_df, anti_df} : df # NoFrame}

RowLabels(df) == {df.rows[i].idx : i \in DOMAIN df.rows}

TotalsCoverAllRows ==
    /\ stats_df[3].Prod = WholeTotal(prod_df)
    /\ stats_df[3].Util = WholeTotal(util_df)
    /\ stats_df[3].Anti = WholeTotal(anti_df)

\* C6 as stated: in every loaded table every is_type_strain value is 0 or 1,
\* the two partitions are disjoint and together the full table, and the
\* Total row's metabolite sums are the sums over all rows.
C6_AsStated ==
    /\ \A df \in Loaded :
          /\ AllZeroOne(df)
          /\ RowLabels(filter_by_type_strain(df, 1)) \cap RowLabels(filter_by_type_strain(df, 0)) = {}
          /\ RowLabels(filter_by_type_strain(df, 1)) \cup RowLabels(filter_by_type_strain(df, 0))
                = RowLabels(df)
    /\ StatsReturned => TotalsCoverAllRows

\* C6 amended: in every loaded table every is_type_strain value is an
\* integer and the two partitions are disjoint; a table whose values are all
\* 0 or 1 is the union of its two partitions, and when the values of prod
\* are all 0 or 1 the Total row's metabolite sums are the sums over all rows.
C6_PartitionsWhenZeroOne ==
    /\ \A df \in Loaded :
          /\ \A i \in DOMAIN df.rows : TypeStrainOf(df, i) \in Int
          /\ RowLabels(filter_by_type_strain(df, 1)) \cap RowLabels(filter_by_type_strain(df, 0)) = {}
          /\ AllZeroOne(df) =>
                RowLabels(filter_by_type_strain(df, 1)) \cup RowLabels(filter_by_type_strain(df, 0))
                    = RowLabels(df)
    /\ (StatsReturned /\ AllZeroOne(prod_df)) => TotalsCoverAllRows

C6_Witness ==
    /\ StatsReturned
    /\ AllZeroOne(prod_df)
    /\ \E i, j \in DOMAIN prod_df.rows : TypeStrainOf(prod_df, i) = 1 /\ TypeStrainOf(prod_df, j) = 0
    /\ Len(util_df.rows) = Len(prod_df.rows)
    /\ stats_df[3].Prod = WholeTotal(prod_df)
    /\ stats_df[1].Prod > 0 /\ stats_df[2].Prod > 0

\* ------------------------------------------------------- claims: the filter
SeqToBag(rows) == [r \in Range(rows) |-> Cardinality({i \in DOMAIN rows : rows[i] = r})]

Increasing(rows) == \A i, j \in DOMAIN rows : i < j => rows[i].idx < rows[j].idx

Dispatched == pc \in {"buttons", "done"}

\* C7: for a table whose is_type_strain values are all 0 or 1, the filters
\* for 1 and for 0 are disjoint, their union as row multisets is the table,
\* each keeps all columns and the original order of its rows, and the table
\* filtered by the dispatch is still the table that was loaded.
C7_FilterPartitionsTable ==
    /\ \A df \in Loaded :
          AllZeroOne(df) =>
              LET one == filter_by_type_strain(df, 1)
                  zero == filter_by_type_strain(df, 0)
              IN  /\ one.columns = df.columns /\ zero.columns = df.columns
                  /\ Range(one.rows) \cap Range(zero.rows) = {}
                  /\ SeqToBag(one.rows) (+) SeqToBag(zero.rows) = SeqToBag(df.rows)
                  /\ Increasing(one.rows) /\ Increasing(zero.rows)
                  /\ \A i \in DOMAIN one.rows : TypeStrainOf(one, i) = 1
                  /\ \A i \in DOMAIN zero.rows : TypeStrainOf(zero, i) = 0
    /\ Dispatched =>
          /\ prod_df = load_and_clean_data(files.prod).df
          /\ util_df = load_and_clean_data(files.util).df
          /\ anti_df = load_and_clean_data(files.anti).df

C7_Witness ==
    /\ Dispatched
    /\ show_type_strain_1 /\ ~show_type_strain_0
    /\ AllZeroOne(prod_df)
    /\ Len(prod_df_filtered.rows) = 1
    /\ Len(filter_by_type_strain(prod_df, 0).rows) = 1
    /\ prod_df_filtered.rows[1].idx = 1

\* The rows of df whose own is_type_strain cell is v.
OwnPartition(df, v) ==
    [columns |-> df.columns,
     rows |-> SelectSeq(df.rows, LAMBDA r : r.cells["is_type_strain_header"] = v)]

\* The frames the analyses are to run on, by the state of the checkboxes.
ExpectedFrames ==
    IF show_type_strain_1 = show_type_strain_0
    THEN <<prod_df, util_df, anti_df>>
    ELSE LET v == IF show_type_strain_1 THEN 1 ELSE 0
         IN  <<OwnPartition(prod_df, v), OwnPartition(util_df, v), OwnPartition(anti_df, v)>>

\* C8: with both checkboxes selected or both deselected every analysis runs
\* on the unfiltered tables; with exactly one selected the three tables are
\* filtered to that value, each on its own is_type_strain column.  The
\* statistics table is that of the unfiltered tables in all four states.
C8_CheckboxDispatch ==
    Dispatched =>
        /\ <<prod_df_filtered, util_df_filtered, anti_df_filtered>> = ExpectedFrames
        /\ stats_df = compute_statistics(prod_df, util_df, anti_df).stats
        /\ stats_df # NoStats
        /\ pc = "done" => out \in rendered(button, ExpectedFrames)

C8_Witness ==
    /\ pc = "done"
    /\ ~show_type_strain_1 /\ show_type_strain_0
    /\ button = <<"util", "count">>
    /\ util_df_filtered # util_df
    /\ util_df_filtered # bool_select(util_df, type_strain_mask(prod_df, 0))
    /\ Len(util_df_filtered.rows) > 0
    /\ out = count_metabolites(util_df_filtered)

\* ------------------------------------------------------ claims: the ranking
\* The frame the pressed button's analysis reads.
ButtonFrame ==
    CASE button[1] = "prod" -> prod_df_filtered
      [] button[1] = "util" -> util_df_filtered
      [] OTHER -> anti_df_filtered

Rendered(analysis) == pc = "done" /\ button # NoButton /\ button[2] = analysis

SpeciesColumn == Column(ButtonFrame, "species")

SpeciesCountOf(v) == Cardinality({i \in DOMAIN SpeciesColumn : SpeciesColumn[i] = v})

FirstRowOf(v) == CHOOSE i \in DOMAIN SpeciesColumn :
                     SpeciesColumn[i] = v /\ \A j \in 1..(i - 1) : SpeciesColumn[j] # v

DistinctSpecies == Range(SpeciesColumn) \ {""}

NonIncreasing(series) == \A i, j \in DOMAIN series : i < j => series[i].value >= series[j].value

Names(series) == {series[k].name : k \in DOMAIN series}

\* The entries are the true value counts of distinct species, at most TopN
\* of them, none for an empty table, in non-increasing order of count, no
\* left-out species having a higher count than a returned one.
TopSpeciesBasics ==
    /\ Len(out) = Min(TopN, Cardinality(DistinctSpecies))
    /\ Cardinality(Names(out)) = Len(out)
    /\ \A k \in DOMAIN out :
          out[k].name \in DistinctSpecies /\ out[k].value = SpeciesCountOf(out[k].name)
    /\ NonIncreasing(out)
    /\ \A v \in DistinctSpecies \ Names(out) :
          \A k \in DOMAIN out : SpeciesCountOf(v) <= out[k].value

\* C9 as stated: at most n entries, never a count higher than a preceding
\* one, and entries of equal count in the order they are first met in the
\* table.
C9_AsStated ==
    Rendered("species") =>
        /\ TopSpeciesBasics
        /\ \A i, j \in DOMAIN out :
              (i < j /\ out[i].value = out[j].value)
                  => FirstRowOf(out[i].name) < FirstRowOf(out[j].name)

\* C9 amended: at most n entries (fewer for fewer distinct values, none for
\* an empty table), never a count higher than a preceding one; the order of
\* entries of equal count is not determined.
C9_TopSpeciesDescending == Rendered("species") => TopSpeciesBasics

C9_Witness ==
    /\ Rendered("species")
    /\ Cardinality(DistinctSpecies) > TopN
    /\ Len(out) = TopN
    /\ \E i \in DOMAIN out : i < TopN /\ out[i].value = out[i + 1].value
    /\ out[1].value > out[TopN].value

MetColumns == SubSeq(ButtonFrame.columns, 5, Len(ButtonFrame.columns))

ColumnSum(c) == SumSeq([i \in DOMAIN ButtonFrame.rows |-> ButtonFrame.rows[i].cells[c]])

\* count_metabolites: one entry for every column at position >= 4, in column
\* order, holding the sum of the column's cells (0 for an empty table).
CountIsColumnSums ==
    Rendered("count") =>
        /\ Len(out) = Len(MetColumns)
        /\ \A k \in DOMAIN out :
              /\ out[k].name = MetColumns[k]
              /\ out[k].value = ColumnSum(MetColumns[k])
              /\ ButtonFrame.rows = <<>> => out[k].value = 0

TopMetabolitesBasics ==
    /\ Len(out) = Min(TopN, Len(MetColumns))
    /\ Cardinality(Names(out)) = Len(out)
    /\ \A k \in DOMAIN out :
          out[k].name \in Range(MetColumns) /\ out[k].value = ColumnSum(out[k].name)
    /\ NonIncreasing(out)
    /\ \A c \in Range(MetColumns) \ Names(out) :
          \A k \in DOMAIN out : ColumnSum(c) <= out[k].value

\* C10 as stated: at most n entries of count_metabolites, sorted by sum
\* descending, columns of equal sum in their original column order.
C10_AsStated ==
    /\ CountIsColumnSums
    /\ Rendered("metabolites") =>
          /\ TopMetabolitesBasics
          /\ \A i, j \in DOMAIN out :
                (i < j /\ out[i].value = out[j].value)
                    => IndexOf(MetColumns, out[i].name) < IndexOf(MetColumns, out[j].name)

\* C10 amended: at most n entries of count_metabolites, which sums every
\* column at position >= 4 over all rows, sorted by sum descending; the
\* order of columns of equal sum is not determined.
C10_TopMetabolitesDescending ==
    /\ CountIsColumnSums
    /\ Rendered("metabolites") => TopMetabolitesBasics

C10_Witness ==
    /\ Rendered("metabolites")
    /\ Len(MetColumns) > TopN
    /\ Len(out) = TopN
    /\ Len(ButtonFrame.rows) = 2
    /\ \E i \in DOMAIN out : i < TopN /\ out[i].value = out[i + 1].value
    /\ out[1].value > out[TopN].value

====
